---- MODULE Spec2Model ----
(***************************************************************************)
(* Model of nnp_fully_connected_output (src/src/fully-connected-output.c): *)
(* argument validation, block-size planning from the hardware profile,    *)
(* scratch allocation, the input-packing stage, and for every input-       *)
(* channel block the kernel-packing stage followed by one multiplication   *)
(* stage per batch block, then the single cleanup path.                    *)
(*                                                                         *)
(* Matrices are flat row-major arrays (functions on 0..n-1) of integers.   *)
(* A stage is a set of tiles handed to the tiled parallel-for; a tile is   *)
(* started (Dispatch) and later finishes (its writes become visible).      *)
(***************************************************************************)
EXTENDS Integers, FiniteSets, Sequences, TLC

\* ------------------------------------------------------------------ bounds

MaxBatch == 5
MaxInputChannels == 3
MaxOutputChannels == 25
MaxWorkers == 2

\* ------------------------------------------------------- program constants

batch_subblock_max == 4
output_channels_subblock_max == 24

nnp_status_success == 0
nnp_status_invalid_batch_size == 2
nnp_status_invalid_input_channels == 4
nnp_status_invalid_output_channels == 5
nnp_status_uninitialized == 50
nnp_status_out_of_memory == 52

\* -------------------------------------------------------------- utilities

min(a, b) == IF a < b THEN a ELSE b

round_up(n, q) == ((n + q - 1) \div q) * q

round_down(n, q) == (n \div q) * q

\* Bitwise AND of two naturals, bit by bit.
RECURSIVE BitAnd(_, _)
BitAnd(x, y) ==
    IF x = 0 \/ y = 0 THEN 0
    ELSE (x % 2) * (y % 2) + 2 * BitAnd(x \div 2, y \div 2)

\* Unary minus on size_t.  Only the low bits survive the AND with
\* simd_width - 1 that follows, and 2^64 is a multiple of 2^16, so the
\* negation is carried out modulo 2^16.
SizeNeg(x) == (65536 - (x % 65536)) % 65536

\* ------------------------------------------------------- call arguments

\* Shapes a call may be made with; 0 is the invalid size.
BatchSizes == 0..MaxBatch
InputChannelCounts == 0..MaxInputChannels
OutputChannelCounts == {0, 1, 13, 24, MaxOutputChannels}

\* Contents of the caller's matrices: every element gets a value that
\* depends on both of its coordinates and on the seed.
Seeds == {1}
InputValue(seed, b, i) == ((3 * b + 5 * i + b * i + 2 * seed) % 7) - 3
KernelValue(seed, o, i) == ((2 * o + 3 * i + o * i + seed) % 5) - 2

InputMatrix(seed, bs, ic) ==
    [x \in 0..(bs * ic - 1) |-> InputValue(seed, x \div ic, x % ic)]
KernelMatrix(seed, oc, ic) ==
    [x \in 0..(oc * ic - 1) |-> KernelValue(seed, x \div ic, x % ic)]

\* What the caller's output buffer holds before the call.
OutputFills == {7}
\* What freshly allocated scratch holds.
ScratchFill == 99

\* threadpool: 0 is NULL, n > 0 a pool of n workers.
ThreadPools == {0, MaxWorkers}

\* Hardware profiles nnp_initialize may publish: cache capacities in bytes
\* (all positive) and the SIMD width in elements.
HardwareProfiles ==
    { [l1 |-> 224, l2 |-> 200, l3 |-> 40,  simd_width |-> 8],
      [l1 |-> 224, l2 |-> 400, l3 |-> 72,  simd_width |-> 8],
      [l1 |-> 64,  l2 |-> 192, l3 |-> 32,  simd_width |-> 8],
      [l1 |-> 112, l2 |-> 96,  l3 |-> 8,   simd_width |-> 8],
      [l1 |-> 112, l2 |-> 64,  l3 |-> 16,  simd_width |-> 8] }

ZeroProfile == [l1 |-> 0, l2 |-> 0, l3 |-> 0, simd_width |-> 0]

\* ------------------------------------------------------------------ state

VARIABLES
    initialized,       \* nnp_hwinfo.initialized
    nnp_hwinfo,        \* the published hardware profile
    deinitialized,     \* nnp_deinitialize ran since the last nnp_initialize
    pc,                \* position of the call
    batch_size, input_channels, output_channels,
    input, kernel, output,
    threadpool,
    status,
    memory_block,      \* FALSE is NULL
    memory_size,       \* -1 while the local is still indeterminate
    memory,            \* contents of the scratch block, in floats
    plan,              \* block maxima and scratch layout derived by the call
    input_channels_block_start,
    batch_block_start,
    pending,           \* tiles of the running stage not yet started
    running,           \* tiles started and not finished
    \* history of the call
    output_before,     \* the output buffer as the caller passed it
    writes,            \* flat output index -> number of microkernel writes
    sgemm_calls,       \* microkernel invocations of the running multiplication stage
    allocations,       \* scratch blocks acquired by the call
    releases,          \* scratch blocks released by the call
    cleanups,          \* times the cleanup step ran
    tiles_started,     \* tiles handed to a worker, all stages
    started,           \* tiles handed to a worker, with their stage
    finished,          \* tiles that ran to completion, with their stage
    faults             \* accesses outside a buffer or the dispatch table

vars == << initialized, nnp_hwinfo, deinitialized, pc, batch_size, input_channels,
           output_channels, input, kernel, output, threadpool, status,
           memory_block, memory_size, memory, plan,
           input_channels_block_start, batch_block_start, pending, running,
           output_before, writes, sgemm_calls, allocations, releases,
           cleanups, tiles_started, started, finished, faults >>

libvars == << initialized, nnp_hwinfo, deinitialized >>
argvars == << batch_size, input_channels, output_channels, input, kernel,
              threadpool, output_before >>
histvars == << writes, sgemm_calls, allocations, releases, cleanups,
               tiles_started, started, finished, faults >>

NoPlan == [input_channels_block_max |-> 0, batch_block_max |-> 0,
           output_channels_block_max |-> 0, packed_kernel_offset |-> 0,
           memory_size |-> 0, simd_width |-> 0]

Init ==
    /\ initialized = FALSE
    /\ nnp_hwinfo = ZeroProfile
    /\ deinitialized = FALSE
    /\ pc = "idle"
    /\ batch_size = 0 /\ input_channels = 0 /\ output_channels = 0
    /\ input = << >> /\ kernel = << >> /\ output = << >>
    /\ threadpool = 0
    /\ status = nnp_status_success
    /\ memory_block = FALSE
    /\ memory_size = -1
    /\ memory = << >>
    /\ plan = NoPlan
    /\ input_channels_block_start = 0
    /\ batch_block_start = 0
    /\ pending = {} /\ running = {}
    /\ output_before = << >>
    /\ writes = << >>
    /\ sgemm_calls = {}
    /\ allocations = 0 /\ releases = 0 /\ cleanups = 0
    /\ tiles_started = 0
    /\ started = {} /\ finished = {}
    /\ faults = {}

\* ------------------------------------------------------- library lifetime

\* nnp_initialize publishes the hardware profile.
NnpInitialize(profile) ==
    /\ pc = "idle"
    /\ ~initialized
    /\ initialized' = TRUE
    /\ nnp_hwinfo' = profile
    /\ deinitialized' = FALSE
    /\ UNCHANGED << pc, argvars, output, status, memory_block, memory_size,
                    memory, plan, input_channels_block_start,
                    batch_block_start, pending, running, histvars >>

\* nnp_deinitialize tears the profile down.
NnpDeinitialize ==
    /\ pc = "idle"
    /\ initialized
    /\ initialized' = FALSE
    /\ nnp_hwinfo' = ZeroProfile
    /\ deinitialized' = TRUE
    /\ UNCHANGED << pc, argvars, output, status, memory_block, memory_size,
                    memory, plan, input_channels_block_start,
                    batch_block_start, pending, running, histvars >>

\* ------------------------------------------------ nnp_fully_connected_output

\* Entry: the arguments are bound, memory_block = NULL.
Call(bs, ic, oc, seed, fill, tp) ==
    /\ pc = "idle"
    /\ batch_size' = bs
    /\ input_channels' = ic
    /\ output_channels' = oc
    /\ input' = InputMatrix(seed, bs, ic)
    /\ kernel' = KernelMatrix(seed, oc, ic)
    /\ output' = [x \in 0..(bs * oc - 1) |-> fill]
    /\ output_before' = [x \in 0..(bs * oc - 1) |-> fill]
    /\ threadpool' = tp
    /\ memory_block' = FALSE
    /\ memory_size' = -1
    /\ memory' = << >>
    /\ plan' = NoPlan
    /\ status' = nnp_status_success
    /\ input_channels_block_start' = 0
    /\ batch_block_start' = 0
    /\ pending' = {} /\ running' = {}
    /\ writes' = << >>
    /\ sgemm_calls' = {}
    /\ allocations' = 0 /\ releases' = 0 /\ cleanups' = 0
    /\ tiles_started' = 0
    /\ started' = {} /\ finished' = {}
    /\ faults' = {}
    /\ pc' = "validate"
    /\ UNCHANGED libvars

\* validate_fully_connected_arguments: the library must be initialized and
\* the three sizes non-zero.
validate_fully_connected_arguments(bs, ic, oc) ==
    IF ~initialized THEN nnp_status_uninitialized
    ELSE IF bs = 0 THEN nnp_status_invalid_batch_size
    ELSE IF ic = 0 THEN nnp_status_invalid_input_channels
    ELSE IF oc = 0 THEN nnp_status_invalid_output_channels
    ELSE nnp_status_success

\* Mutant: the status of the validation is not looked at.
after_validation_unchecked(st) == "plan"

\* Mutant: a failed validation returns at once instead of jumping to cleanup.
after_validation_early_return(st) ==
    IF st # nnp_status_success THEN "done" ELSE "plan"

\* Lines 255-257: any status but success jumps to the cleanup.
after_validation(st) == IF st # nnp_status_success THEN "cleanup" ELSE "plan"

\* Mutant: the result of the validation decides the jump but is not kept
\* as the status to return.
Validate_status_dropped ==
    /\ pc = "validate"
    /\ pc' = after_validation(validate_fully_connected_arguments(
                 batch_size, input_channels, output_channels))
    /\ UNCHANGED << libvars, argvars, output, status, memory_block,
                    memory_size, memory, plan, input_channels_block_start,
                    batch_block_start, pending, running, histvars >>

\* Lines 254-257.
Validate ==
    /\ pc = "validate"
    /\ status' = validate_fully_connected_arguments(
                     batch_size, input_channels, output_channels)
    /\ pc' = after_validation(status')
    /\ UNCHANGED << libvars, argvars, output, memory_block, memory_size,
                    memory, plan, input_channels_block_start,
                    batch_block_start, pending, running, histvars >>

\* Block maxima from the cache capacities.
cache_elements(bytes) == bytes \div 4

input_channels_block_max_of(hw) ==
    cache_elements(hw.l1) \div (batch_subblock_max + output_channels_subblock_max)

\* Mutant: the batch block maximum is not rounded down to whole subblocks.
batch_block_max_of_unrounded(hw) ==
    cache_elements(hw.l3) \div input_channels_block_max_of(hw)

batch_block_max_of(hw) ==
    round_down(cache_elements(hw.l3) \div input_channels_block_max_of(hw),
               batch_subblock_max)

output_channels_block_max_of(hw) ==
    round_down(cache_elements(hw.l2) \div input_channels_block_max_of(hw),
               output_channels_subblock_max)

\* Mutant: the packed input is sized for the batch itself, not for whole
\* subblocks.
packed_input_size_of_unrounded(bs, ic) == bs * ic * 4

\* Scratch footprint in bytes.
packed_input_size_of(bs, ic) == round_up(bs, batch_subblock_max) * ic * 4

packed_kernel_offset_of(bs, ic) == round_up(packed_input_size_of(bs, ic), 64)

packed_kernel_size_of(oc, icbm) ==
    round_up(oc, output_channels_subblock_max) * icbm * 4

\* Lines 259-276.  The two divisions by input_channels_block_max trap when
\* it is 0: the call does not return.
Plan ==
    /\ pc = "plan"
    /\ IF input_channels_block_max_of(nnp_hwinfo) = 0
       THEN /\ pc' = "no_return"
            /\ UNCHANGED << plan, memory_size >>
       ELSE /\ plan' =
                [input_channels_block_max |->
                     input_channels_block_max_of(nnp_hwinfo),
                 batch_block_max |-> batch_block_max_of(nnp_hwinfo),
                 output_channels_block_max |->
                     output_channels_block_max_of(nnp_hwinfo),
                 packed_kernel_offset |->
                     packed_kernel_offset_of(batch_size, input_channels),
                 memory_size |->
                     packed_kernel_offset_of(batch_size, input_channels)
                     + packed_kernel_size_of(output_channels,
                           input_channels_block_max_of(nnp_hwinfo)),
                 simd_width |-> nnp_hwinfo.simd_width]
            /\ memory_size' = plan'.memory_size
            /\ pc' = "allocate"
    /\ UNCHANGED << libvars, argvars, output, status, memory_block, memory,
                    input_channels_block_start, batch_block_start, pending,
                    running, histvars >>

\* Mutant: the NULL check after allocate_memory is missing.
Allocate_unchecked(ok) ==
    /\ pc = "allocate"
    /\ IF ok
       THEN /\ memory_block' = TRUE
            /\ memory' = [x \in 0..((memory_size \div 4) - 1) |-> ScratchFill]
            /\ allocations' = allocations + 1
       ELSE UNCHANGED << memory_block, memory, allocations >>
    /\ pc' = "input_transform"
    /\ UNCHANGED << libvars, argvars, output, status, memory_size, plan,
                    input_channels_block_start, batch_block_start, pending,
                    running, writes, sgemm_calls, releases, cleanups,
                    tiles_started, started, finished, faults >>

\* Lines 278-282: allocate_memory either returns a block of memory_size
\* bytes or NULL.
Allocate(ok) ==
    /\ pc = "allocate"
    /\ IF ok
       THEN /\ memory_block' = TRUE
            /\ memory' = [x \in 0..((memory_size \div 4) - 1) |-> ScratchFill]
            /\ allocations' = allocations + 1
            /\ pc' = "input_transform"
            /\ UNCHANGED status
       ELSE /\ status' = nnp_status_out_of_memory
            /\ pc' = "cleanup"
            /\ UNCHANGED << memory_block, memory, allocations >>
    /\ UNCHANGED << libvars, argvars, output, memory_size, plan,
                    input_channels_block_start, batch_block_start, pending,
                    running, writes, sgemm_calls, releases, cleanups,
                    tiles_started, started, finished, faults >>

\* ------------------------------------------------------------------ tiles

\* Tile starts of a tiled loop: 0, tile, 2*tile, ... below range.
TileStarts(range, tile) == {x \in 0..(range - 1) : x % tile = 0}

\* pthreadpool_compute_2d_tiled: one tile per (i, j) start, clipped to range.
Tiles2D(range_i, range_j, tile_i, tile_j) ==
    { [i |-> a, j |-> b,
       si |-> min(range_i - a, tile_i), sj |-> min(range_j - b, tile_j)] :
      a \in TileStarts(range_i, tile_i), b \in TileStarts(range_j, tile_j) }

\* pthreadpool_compute_1d_tiled.
Tiles1D(range, tile) ==
    { [i |-> a, j |-> 0, si |-> min(range - a, tile), sj |-> 0] :
      a \in TileStarts(range, tile) }

\* Order of the sequential loops a tiled loop degenerates to.
GridBefore(t, u) == t.i < u.i \/ (t.i = u.i /\ t.j < u.j)

\* Order of the three nested loops of a packing routine.
LoopOrderLE(p, q) ==
    \/ p[1] < q[1]
    \/ p[1] = q[1] /\ p[2] < q[2]
    \/ p[1] = q[1] /\ p[2] = q[2] /\ p[3] <= q[3]

\* Iterations <<outer_subblock_start, input_channels_block_offset,
\* outer_subblock_offset>> of the loops of a packing routine.
PackIterations(outer_block_size, input_channels_block_size, outer_subblock_max) ==
    { <<oss, off, so>> \in
          TileStarts(outer_block_size, outer_subblock_max)
          \X (0..(input_channels_block_size - 1))
          \X (0..(outer_subblock_max - 1)) :
      so < min(outer_block_size - oss, outer_subblock_max) }

\* packed_matrix[at] = matrix[from] for every store, in loop order.
ApplyStores(mem, base, matrix, stores) ==
    [p \in DOMAIN mem |->
        LET c == {s \in stores : base + s.at = p}
        IN  IF c = {} THEN mem[p]
            ELSE LET last == CHOOSE s \in c :
                                 \A q \in c : LoopOrderLE(q.seq, s.seq)
                 IN  IF last.from \in DOMAIN matrix
                     THEN matrix[last.from] ELSE ScratchFill]

StoreFaults(mem, base, matrix, stores) ==
    (IF \E s \in stores : base + s.at \notin DOMAIN mem
     THEN {"scratch_write"} ELSE {})
    \cup (IF \E s \in stores : s.from \notin DOMAIN matrix
          THEN {"matrix_read"} ELSE {})

\* ------------------------------------------------------ pack_input_matrix

pack_input_index(ic, t, it) ==
    (t.i + it[1] + it[3]) * ic + (t.j + it[2])

\* Mutant: the stride of the block is its size, not rounded up to whole
\* subblocks.
pack_input_packed_index_unrounded(ic, osm, t, it) ==
    t.i * ic + t.j * t.si
    + it[1] * t.sj + it[2] * osm + it[3]

pack_input_packed_index(ic, osm, t, it) ==
    t.i * ic + t.j * round_up(t.si, osm)
    + it[1] * t.sj + it[2] * osm + it[3]

\* Tile t = (outer_block_start, input_channels_block_start,
\*           outer_block_size, input_channels_block_size).
pack_input_stores(ic, osm, t) ==
    { [seq |-> it,
       at |-> pack_input_packed_index(ic, osm, t, it),
       from |-> pack_input_index(ic, t, it)] :
      it \in PackIterations(t.si, t.sj, osm) }

pack_input_matrix(mem, matrix, ic, osm, t) ==
    ApplyStores(mem, 0, matrix, pack_input_stores(ic, osm, t))

\* ----------------------------------------------------- pack_kernel_matrix

pack_kernel_index(ic, icbs, t, it) ==
    (t.i + it[1] + it[3]) * ic + (icbs + it[2])

\* Mutant: the start of the subblock is left out of the packed index.
pack_kernel_packed_index_no_subblock(icb_size, osm, t, it) ==
    t.i * icb_size + it[2] * osm + it[3]

pack_kernel_packed_index(icb_size, osm, t, it) ==
    (t.i + it[1]) * icb_size + it[2] * osm + it[3]

\* Tile t = (outer_block_start, outer_block_size); the input-channel block
\* comes from the context.
pack_kernel_stores(ic, osm, icbs, icb_size, t) ==
    { [seq |-> it,
       at |-> pack_kernel_packed_index(icb_size, osm, t, it),
       from |-> pack_kernel_index(ic, icbs, t, it)] :
      it \in PackIterations(t.si, icb_size, osm) }

pack_kernel_matrix(mem, base, matrix, ic, osm, icbs, icb_size, t) ==
    ApplyStores(mem, base, matrix,
                pack_kernel_stores(ic, osm, icbs, icb_size, t))

\* ------------------------------------------- compute_matrix_multiplication

\* column_mask[16]: eight enabled lanes (UINT32_MAX, written 1) and eight
\* disabled ones.
column_mask == [x \in 0..15 |-> IF x < 8 THEN 1 ELSE 0]

\* sgemm_functions[4][3]: cell [row][col] is nnp_sgemm_{row+1}x{8(col+1)}__fma3.
sgemm_functions ==
    [row \in 0..3 |-> [col \in 0..2 |-> [mr |-> row + 1, nr |-> 8 * (col + 1)]]]

\* The context the driver fills in for one multiplication stage.
MultiplicationContext(ic, oc, bbs, bb_size, icbs, icb_size, simd, kernel_base) ==
    [input_channels |-> ic, output_channels |-> oc,
     batch_block_start |-> bbs, batch_block_size |-> bb_size,
     input_channels_block_start |-> icbs,
     input_channels_block_size |-> icb_size,
     simd_width |-> simd, kernel_base |-> kernel_base]

sgemm_row(t) == t.sj - 1

\* Mutant: the column is the subblock size over the SIMD width, without the
\* decrement.
sgemm_column_no_decrement(subblock_size, simd) == subblock_size \div simd

sgemm_column(subblock_size, simd) == (subblock_size - 1) \div simd

\* Mutant: the stride of the batch block is not rounded up to whole
\* subblocks.
sgemm_input_offset_unrounded(ctx, t) ==
    ctx.batch_block_start * ctx.input_channels
    + ctx.input_channels_block_start * ctx.batch_block_size
    + t.j * ctx.input_channels_block_size

sgemm_input_offset(ctx, t) ==
    ctx.batch_block_start * ctx.input_channels
    + ctx.input_channels_block_start
      * round_up(ctx.batch_block_size, batch_subblock_max)
    + t.j * ctx.input_channels_block_size

sgemm_kernel_offset(ctx, t, ss) ==
    (t.i + ss) * ctx.input_channels_block_size

\* Mutant: the batch subblock of the tile is left out of the output row.
sgemm_output_offset_no_subblock(ctx, t, ss) ==
    ctx.batch_block_start * ctx.output_channels + (t.i + ss)

\* Mutant: the start of the batch block is left out of the output row.
sgemm_output_offset_no_batch_block(ctx, t, ss) ==
    t.j * ctx.output_channels + (t.i + ss)

sgemm_output_offset(ctx, t, ss) ==
    (ctx.batch_block_start + t.j) * ctx.output_channels + (t.i + ss)

\* Mutant: every lane of the last vector is always enabled.
column_mask_offset_full(subblock_size, simd) == 0

\* Mutant: the subblock size is masked without being negated.
column_mask_offset_unnegated(subblock_size, simd) ==
    BitAnd(subblock_size, simd - 1)

column_mask_offset(subblock_size, simd) ==
    BitAnd(SizeNeg(subblock_size), simd - 1)

\* Mutant: the size of the input-channel block is passed where its start
\* belongs, so that no invocation overwrites.
SgemmCall_update_from_size(ctx, t, ss) ==
    LET s == min(t.si - ss, output_channels_subblock_max)
    IN  [tile |-> t, subblock_start |-> ss, subblock_size |-> s,
         row |-> sgemm_row(t),
         col |-> sgemm_column(s, ctx.simd_width),
         k |-> ctx.input_channels_block_size,
         update |-> ctx.input_channels_block_size,
         a |-> sgemm_input_offset(ctx, t),
         b |-> ctx.kernel_base + sgemm_kernel_offset(ctx, t, ss),
         c |-> sgemm_output_offset(ctx, t, ss),
         row_stride_c |-> ctx.output_channels,
         mask |-> column_mask_offset(s, ctx.simd_width)]

\* The microkernel invocation for the output-channel subblock at ss of tile
\* t = (output_channels_block_start, batch_subblock_start,
\*      output_channels_block_size, batch_subblock_size).
SgemmCall(ctx, t, ss) ==
    LET s == min(t.si - ss, output_channels_subblock_max)
    IN  [tile |-> t, subblock_start |-> ss, subblock_size |-> s,
         row |-> sgemm_row(t),
         col |-> sgemm_column(s, ctx.simd_width),
         k |-> ctx.input_channels_block_size,
         update |-> ctx.input_channels_block_start,
         a |-> sgemm_input_offset(ctx, t),
         b |-> ctx.kernel_base + sgemm_kernel_offset(ctx, t, ss),
         c |-> sgemm_output_offset(ctx, t, ss),
         row_stride_c |-> ctx.output_channels,
         mask |-> column_mask_offset(s, ctx.simd_width)]

InTable(call) == call.row \in 0..3 /\ call.col \in 0..2

\* ------------------------------------------- the microkernel nnp_sgemm_MxN
\* An M x N tile of inner products over k reduction steps of the packed
\* tiles: step kk of row r is at a[kk * batch_subblock_max + r], of column j
\* at b[kk * output_channels_subblock_max + j].  The last 8-lane vector of
\* each row is stored under the column mask.  A second argument of 0
\* overwrites the tile, any other value accumulates into it.

RECURSIVE Dot(_, _, _, _)
Dot(mem, a, b, k) ==
    IF k = 0 THEN 0
    ELSE LET x == a + (k - 1) * batch_subblock_max
             y == b + (k - 1) * output_channels_subblock_max
         IN  (IF x \in DOMAIN mem THEN mem[x] ELSE ScratchFill)
             * (IF y \in DOMAIN mem THEN mem[y] ELSE ScratchFill)
             + Dot(mem, a, b, k - 1)

SgemmLanes(call) ==
    IF ~InTable(call) THEN {}
    ELSE LET nr == sgemm_functions[call.row][call.col].nr
         IN  {j \in 0..(nr - 1) :
                 \/ j < nr - 8
                 \/ /\ call.mask + j - (nr - 8) \in DOMAIN column_mask
                    /\ column_mask[call.mask + j - (nr - 8)] # 0}

SgemmCells(call) ==
    IF ~InTable(call) THEN {}
    ELSE (0..(sgemm_functions[call.row][call.col].mr - 1)) \X SgemmLanes(call)

SgemmWritten(call) ==
    {call.c + rj[1] * call.row_stride_c + rj[2] : rj \in SgemmCells(call)}

\* Offsets the microkernel loads: mr floats of the packed input and nr
\* floats (whole vectors) of the packed kernel per reduction step; the
\* kernel offsets are relative to packed_kernel.
SgemmInputReads(call) ==
    IF ~InTable(call) THEN {}
    ELSE { call.a + kk * batch_subblock_max + r :
           kk \in 0..(call.k - 1),
           r \in 0..(sgemm_functions[call.row][call.col].mr - 1) }

SgemmKernelReads(call, kernel_base) ==
    IF ~InTable(call) THEN {}
    ELSE { call.b - kernel_base + kk * output_channels_subblock_max + j :
           kk \in 0..(call.k - 1),
           j \in 0..(sgemm_functions[call.row][call.col].nr - 1) }

nnp_sgemm(out, mem, call) ==
    [x \in DOMAIN out |->
        LET c == {rj \in SgemmCells(call) :
                     call.c + rj[1] * call.row_stride_c + rj[2] = x}
        IN  IF c = {} THEN out[x]
            ELSE LET rj == CHOOSE q \in c :
                               \A p \in c : p[1] < q[1]
                                            \/ (p[1] = q[1] /\ p[2] <= q[2])
                 IN  (IF call.update = 0 THEN 0 ELSE out[x])
                     + Dot(mem, call.a + rj[1], call.b + rj[2], call.k)]

\* The invocations of one tile, in the order of the subblock loop.
SgemmCalls(ctx, t) ==
    {SgemmCall(ctx, t, ss) :
        ss \in TileStarts(t.si, output_channels_subblock_max)}

RECURSIVE ApplyCalls(_, _, _)
ApplyCalls(out, mem, calls) ==
    IF calls = {} THEN out
    ELSE LET first == CHOOSE c \in calls :
                          \A d \in calls : c.subblock_start <= d.subblock_start
         IN  ApplyCalls(nnp_sgemm(out, mem, first), mem, calls \ {first})

compute_matrix_multiplication(out, mem, ctx, t) ==
    ApplyCalls(out, mem, SgemmCalls(ctx, t))

\* Microkernel writes per flat output index, inside the buffer or not.
CountWrites(w, calls) ==
    LET hit == UNION {SgemmWritten(c) : c \in calls}
    IN  [x \in DOMAIN w \cup hit |->
            (IF x \in DOMAIN w THEN w[x] ELSE 0)
            + Cardinality({c \in calls : x \in SgemmWritten(c)})]

MultiplyFaults(out, calls) ==
    (IF \E c \in calls : ~InTable(c) THEN {"dispatch"} ELSE {})
    \cup (IF \E c \in calls : ~(SgemmWritten(c) \subseteq DOMAIN out)
          THEN {"output_write"} ELSE {})

\* ---------------------------------------- compute_fully_connected_output

Stages == {"pack_input", "pack_kernel", "multiply"}

input_channels_block_size_at(icbs) ==
    min(input_channels - icbs, plan.input_channels_block_max)

\* Mutant: the last batch block is not clipped to the batch.
batch_block_size_unclipped(bbs) == plan.batch_block_max

batch_block_size_at(bbs) == min(batch_size - bbs, plan.batch_block_max)

\* Float index of packed_kernel inside the scratch block.
packed_kernel_base == plan.packed_kernel_offset \div 4

\* Lines 155-165: the input-packing stage is submitted.  A tile size of 0
\* never gets through the tiled loop (its tile count divides by the tile
\* size; run sequentially the loop does not advance).
StartPackInput ==
    /\ pc = "input_transform"
    /\ IF plan.batch_block_max = 0 \/ plan.input_channels_block_max = 0
       THEN pc' = "no_return" /\ UNCHANGED pending
       ELSE /\ pending' = Tiles2D(batch_size, input_channels,
                                  plan.batch_block_max,
                                  plan.input_channels_block_max)
            /\ pc' = "pack_input"
    /\ UNCHANGED << libvars, argvars, output, status, memory_block,
                    memory_size, memory, plan, input_channels_block_start,
                    batch_block_start, running, histvars >>

\* A tile together with the stage it belongs to: the input-channel block
\* and, for a multiplication, the batch block the driver is in.
StageTile(stage, t) ==
    [stage |-> stage,
     input_channels_block_start |->
         IF stage = "pack_input" THEN 0 ELSE input_channels_block_start,
     batch_block_start |->
         IF stage = "multiply" THEN batch_block_start ELSE 0,
     tile |-> t]

\* A tile of the running stage starts.  Without a thread pool the caller
\* runs the tiles one at a time in grid order; a pool of n workers runs up
\* to n tiles at once, in any order.
Dispatch(t) ==
    /\ pc \in Stages
    /\ t \in pending
    /\ IF threadpool = 0
       THEN running = {} /\ \A u \in pending : ~GridBefore(u, t)
       ELSE Cardinality(running) < threadpool
    /\ pending' = pending \ {t}
    /\ running' = running \cup {t}
    /\ tiles_started' = tiles_started + 1
    /\ started' = started \cup {StageTile(pc, t)}
    /\ UNCHANGED << libvars, argvars, output, status, memory_block,
                    memory_size, memory, plan, input_channels_block_start,
                    batch_block_start, pc, writes, sgemm_calls, allocations,
                    releases, cleanups, finished, faults >>

\* A pack_input_matrix tile completes.
PackInputTile(t) ==
    /\ pc = "pack_input"
    /\ t \in running
    /\ memory' = pack_input_matrix(memory, input, input_channels,
                                   batch_subblock_max, t)
    /\ faults' = faults \cup
           StoreFaults(memory, 0, input,
               pack_input_stores(input_channels, batch_subblock_max, t))
    /\ running' = running \ {t}
    /\ finished' = finished \cup {StageTile(pc, t)}
    /\ UNCHANGED << libvars, argvars, output, status, memory_block,
                    memory_size, plan, input_channels_block_start,
                    batch_block_start, pc, pending, writes, sgemm_calls,
                    allocations, releases, cleanups, tiles_started,
                    started >>

\* The stage's parallel-for returns once all its tiles are done; the loop
\* over input-channel blocks starts (line 204).
JoinPackInput ==
    /\ pc = "pack_input"
    /\ pending = {} /\ running = {}
    /\ input_channels_block_start' = 0
    /\ pc' = "ic_loop"
    /\ UNCHANGED << libvars, argvars, output, status, memory_block,
                    memory_size, memory, plan, batch_block_start, pending,
                    running, histvars >>

\* Lines 204-219: loop test, then the kernel-packing stage of the block is
\* submitted; when the loop is over the driver returns to the cleanup.
IcLoop ==
    /\ pc = "ic_loop"
    /\ IF input_channels_block_start < input_channels
       THEN IF plan.output_channels_block_max = 0
            THEN pc' = "no_return" /\ UNCHANGED pending
            ELSE /\ pending' = Tiles1D(output_channels,
                                       plan.output_channels_block_max)
                 /\ pc' = "pack_kernel"
       ELSE pc' = "cleanup" /\ UNCHANGED pending
    /\ UNCHANGED << libvars, argvars, output, status, memory_block,
                    memory_size, memory, plan, input_channels_block_start,
                    batch_block_start, running, histvars >>

\* Mutant: the kernel-packing context is given the output buffer as its
\* packed matrix.
PackKernelTile_into_output(t) ==
    /\ pc = "pack_kernel"
    /\ t \in running
    /\ LET icb_size == input_channels_block_size_at(input_channels_block_start)
       IN  /\ output' = pack_kernel_matrix(output, 0, kernel,
                            input_channels, output_channels_subblock_max,
                            input_channels_block_start, icb_size, t)
           /\ faults' = faults \cup
                  StoreFaults(output, 0, kernel,
                      pack_kernel_stores(input_channels,
                          output_channels_subblock_max,
                          input_channels_block_start, icb_size, t))
    /\ running' = running \ {t}
    /\ finished' = finished \cup {StageTile(pc, t)}
    /\ UNCHANGED << libvars, argvars, memory, status, memory_block,
                    memory_size, plan, input_channels_block_start,
                    batch_block_start, pc, pending, writes, sgemm_calls,
                    allocations, releases, cleanups, tiles_started,
                    started >>

\* A pack_kernel_matrix tile completes.
PackKernelTile(t) ==
    /\ pc = "pack_kernel"
    /\ t \in running
    /\ LET icb_size == input_channels_block_size_at(input_channels_block_start)
       IN  /\ memory' = pack_kernel_matrix(memory, packed_kernel_base, kernel,
                            input_channels, output_channels_subblock_max,
                            input_channels_block_start, icb_size, t)
           /\ faults' = faults \cup
                  StoreFaults(memory, packed_kernel_base, kernel,
                      pack_kernel_stores(input_channels,
                          output_channels_subblock_max,
                          input_channels_block_start, icb_size, t))
    /\ running' = running \ {t}
    /\ finished' = finished \cup {StageTile(pc, t)}
    /\ UNCHANGED << libvars, argvars, output, status, memory_block,
                    memory_size, plan, input_channels_block_start,
                    batch_block_start, pc, pending, writes, sgemm_calls,
                    allocations, releases, cleanups, tiles_started,
                    started >>

\* Mutant: the driver goes on once every kernel-packing tile has been handed
\* out, without waiting for the tiles to complete.
JoinPackKernel_no_barrier ==
    /\ pc = "pack_kernel"
    /\ pending = {}
    /\ batch_block_start' = 0
    /\ pc' = "batch_loop"
    /\ UNCHANGED << libvars, argvars, output, status, memory_block,
                    memory_size, memory, plan, input_channels_block_start,
                    pending, running, histvars >>

\* Lines 223-225: kernel packing is complete, the loop over batch blocks
\* starts.
JoinPackKernel ==
    /\ pc = "pack_kernel"
    /\ pending = {} /\ running = {}
    /\ batch_block_start' = 0
    /\ pc' = "batch_loop"
    /\ UNCHANGED << libvars, argvars, output, status, memory_block,
                    memory_size, memory, plan, input_channels_block_start,
                    pending, running, histvars >>

\* Lines 225-234: loop test, then the multiplication stage of the batch
\* block is submitted; when the loop is over the next input-channel block
\* follows.
BatchLoop ==
    /\ pc = "batch_loop"
    /\ IF batch_block_start < batch_size
       THEN /\ pending' = Tiles2D(output_channels,
                                  batch_block_size_at(batch_block_start),
                                  plan.output_channels_block_max,
                                  batch_subblock_max)
            /\ pc' = "multiply"
            /\ UNCHANGED input_channels_block_start
       ELSE /\ input_channels_block_start' =
                    input_channels_block_start + plan.input_channels_block_max
            /\ pc' = "ic_loop"
            /\ UNCHANGED pending
    /\ UNCHANGED << libvars, argvars, output, status, memory_block,
                    memory_size, memory, plan, batch_block_start, running,
                    histvars >>

\* The context of the running multiplication stage.
CurrentContext ==
    MultiplicationContext(input_channels, output_channels,
        batch_block_start, batch_block_size_at(batch_block_start),
        input_channels_block_start,
        input_channels_block_size_at(input_channels_block_start),
        plan.simd_width, packed_kernel_base)

\* A compute_matrix_multiplication tile completes.
MultiplyTile(t) ==
    /\ pc = "multiply"
    /\ t \in running
    /\ output' = compute_matrix_multiplication(output, memory,
                                               CurrentContext, t)
    /\ writes' = CountWrites(writes, SgemmCalls(CurrentContext, t))
    /\ sgemm_calls' = sgemm_calls \cup
                          {[call |-> c, written |-> SgemmWritten(c)] :
                              c \in SgemmCalls(CurrentContext, t)}
    /\ faults' = faults \cup
                 MultiplyFaults(output, SgemmCalls(CurrentContext, t))
    /\ running' = running \ {t}
    /\ finished' = finished \cup {StageTile(pc, t)}
    /\ UNCHANGED << libvars, argvars, status, memory_block, memory_size,
                    memory, plan, input_channels_block_start,
                    batch_block_start, pc, pending, allocations, releases,
                    cleanups, tiles_started, started >>

\* The multiplication stage of the batch block is complete (line 235).
JoinMultiply ==
    /\ pc = "multiply"
    /\ pending = {} /\ running = {}
    /\ batch_block_start' = batch_block_start + plan.batch_block_max
    /\ sgemm_calls' = {}
    /\ pc' = "batch_loop"
    /\ UNCHANGED << libvars, argvars, output, status, memory_block,
                    memory_size, memory, plan, input_channels_block_start,
                    pending, running, writes, allocations, releases,
                    cleanups, tiles_started, started, finished, faults >>

\* ------------------------------------------------------------------ cleanup

\* Values the local memory_size can hold when the jump to cleanup skipped
\* its initialisation.
IndeterminateSizes == {0, 4096}

\* release_memory: a NULL block is left alone, any other block is returned
\* to the system.
release_memory_frees(block, size) == block # FALSE

\* Lines 298-301.
Cleanup(size) ==
    /\ pc = "cleanup"
    /\ size \in (IF memory_size = -1 THEN IndeterminateSizes ELSE {memory_size})
    /\ IF release_memory_frees(memory_block, size)
       THEN releases' = releases + 1 /\ memory' = << >>
       ELSE UNCHANGED << releases, memory >>
    /\ cleanups' = cleanups + 1
    /\ pc' = "done"
    /\ UNCHANGED << libvars, argvars, output, status, memory_block,
                    memory_size, plan, input_channels_block_start,
                    batch_block_start, pending, running, writes, sgemm_calls,
                    allocations, tiles_started, started, finished,
                    faults >>

\* The status has been returned; the caller may call again.
Return ==
    /\ pc = "done"
    /\ pc' = "idle"
    /\ batch_size' = 0 /\ input_channels' = 0 /\ output_channels' = 0
    /\ input' = << >> /\ kernel' = << >> /\ output' = << >>
    /\ threadpool' = 0
    /\ status' = nnp_status_success
    /\ memory_block' = FALSE
    /\ memory_size' = -1
    /\ memory' = << >>
    /\ plan' = NoPlan
    /\ input_channels_block_start' = 0
    /\ batch_block_start' = 0
    /\ pending' = {} /\ running' = {}
    /\ output_before' = << >>
    /\ writes' = << >>
    /\ sgemm_calls' = {}
    /\ allocations' = 0 /\ releases' = 0 /\ cleanups' = 0
    /\ tiles_started' = 0
    /\ started' = {} /\ finished' = {}
    /\ faults' = {}
    /\ UNCHANGED libvars

\* ------------------------------------------------------------ specification

CallStep ==
    \/ Validate
    \/ Plan
    \/ \E ok \in BOOLEAN : Allocate(ok)
    \/ StartPackInput
    \/ \E t \in pending : Dispatch(t)
    \/ \E t \in running : PackInputTile(t)
    \/ JoinPackInput
    \/ IcLoop
    \/ \E t \in running : PackKernelTile(t)
    \/ JoinPackKernel
    \/ BatchLoop
    \/ \E t \in running : MultiplyTile(t)
    \/ JoinMultiply
    \/ \E size \in IndeterminateSizes \cup {memory_size} : Cleanup(size)

Next ==
    \/ \E p \in HardwareProfiles : NnpInitialize(p)
    \/ NnpDeinitialize
    \/ \E bs \in BatchSizes, ic \in InputChannelCounts,
          oc \in OutputChannelCounts, seed \in Seeds, fill \in OutputFills,
          tp \in ThreadPools : Call(bs, ic, oc, seed, fill, tp)
    \/ CallStep
    \/ Return

Spec == Init /\ [][Next]_vars

\* A call in progress keeps being run: the caller thread and the pool's
\* workers are scheduled.
FairSpec == Spec /\ WF_vars(CallStep)

\* ================================================================== claims

\* The naive product: sum over i < n of input[b][i] * kernel[o][i].
RECURSIVE NaiveDot(_, _, _)
NaiveDot(b, o, n) ==
    IF n = 0 THEN 0
    ELSE input[b * input_channels + (n - 1)]
         * kernel[o * input_channels + (n - 1)]
         + NaiveDot(b, o, n - 1)

Returned == pc = "done"
Succeeded == pc = "done" /\ status = nnp_status_success

\* A shape whose input channels span several blocks (the last one ragged)
\* and whose batch and output channels end in ragged blocks.
RaggedMultiBlockShape ==
    /\ input_channels > plan.input_channels_block_max
    /\ input_channels % plan.input_channels_block_max # 0
    /\ batch_size > plan.batch_block_max
    /\ batch_size % batch_subblock_max # 0
    /\ output_channels > plan.output_channels_block_max
    /\ output_channels % output_channels_subblock_max # 0

\* C1: when the call returns success, output[b][o] is the sum over all input
\* channels i of input[b][i] * kernel[o][i], for every b < batch_size and
\* o < output_channels, and the output holds exactly batch_size *
\* output_channels elements.
C1_NumericalCorrectness ==
    Succeeded =>
        /\ DOMAIN output = 0..(batch_size * output_channels - 1)
        /\ \A b \in 0..(batch_size - 1), o \in 0..(output_channels - 1) :
               output[b * output_channels + o] = NaiveDot(b, o, input_channels)

C1_Witness ==
    /\ Succeeded
    /\ RaggedMultiBlockShape
    /\ \E x \in DOMAIN output : output[x] \notin {0, output_before[x]}

AnyZero == batch_size = 0 \/ input_channels = 0 \/ output_channels = 0

MatchingStatuses ==
    (IF batch_size = 0 THEN {nnp_status_invalid_batch_size} ELSE {})
    \cup (IF input_channels = 0 THEN {nnp_status_invalid_input_channels} ELSE {})
    \cup (IF output_channels = 0 THEN {nnp_status_invalid_output_channels} ELSE {})

NothingComputed ==
    /\ tiles_started = 0
    /\ pending = {} /\ running = {}
    /\ writes = << >>
    /\ output = output_before

\* C2: a call with batch_size, input_channels or output_channels equal to 0
\* never plans, allocates, starts a tile or changes an output element, and
\* what it returns is not success: on an initialized library it is the
\* invalid-argument status of one of the zero sizes.
C2_ZeroSizeRejected ==
    (pc # "idle" /\ AnyZero) =>
        /\ pc \in {"validate", "cleanup", "done"}
        /\ allocations = 0
        /\ plan = NoPlan
        /\ NothingComputed
        /\ pc \in {"cleanup", "done"} =>
               /\ status # nnp_status_success
               /\ initialized => status \in MatchingStatuses

C2_Witness ==
    /\ Returned
    /\ initialized
    /\ input_channels = 0 /\ batch_size > 0 /\ output_channels > 0
    /\ status = nnp_status_invalid_input_channels
    /\ output # << >>

\* The call got past validation and planning and allocate_memory gave NULL.
AllocationFailed ==
    /\ pc \notin {"idle", "validate", "plan", "allocate"}
    /\ memory_size # -1
    /\ memory_block = FALSE

\* C3: when allocate_memory returns NULL after validation has passed, the
\* call goes straight to the cleanup and returns nnp_status_out_of_memory;
\* no tile was started and no output element was written.
C3_AllocationFailure ==
    AllocationFailed =>
        /\ pc \in {"cleanup", "done"}
        /\ status = nnp_status_out_of_memory
        /\ allocations = 0
        /\ NothingComputed

C3_Witness ==
    /\ Returned
    /\ AllocationFailed
    /\ status = nnp_status_out_of_memory
    /\ batch_size * output_channels > 1

\* --------------------------------------------------- the sequential run
\* What the call computes when every tiled loop is the plain nested loop
\* over its tile grid (threadpool = NULL), as a function of the arguments.

RECURSIVE SeqPackInput(_, _)
SeqPackInput(mem, tiles) ==
    IF tiles = {} THEN mem
    ELSE LET t == CHOOSE u \in tiles : \A v \in tiles : ~GridBefore(v, u)
         IN  SeqPackInput(
                 pack_input_matrix(mem, input, input_channels,
                                   batch_subblock_max, t),
                 tiles \ {t})

RECURSIVE SeqPackKernel(_, _, _)
SeqPackKernel(mem, icbs, tiles) ==
    IF tiles = {} THEN mem
    ELSE LET t == CHOOSE u \in tiles : \A v \in tiles : ~GridBefore(v, u)
         IN  SeqPackKernel(
                 pack_kernel_matrix(mem, packed_kernel_base, kernel,
                     input_channels, output_channels_subblock_max, icbs,
                     input_channels_block_size_at(icbs), t),
                 icbs, tiles \ {t})

RECURSIVE SeqMultiply(_, _, _, _)
SeqMultiply(out, mem, ctx, tiles) ==
    IF tiles = {} THEN out
    ELSE LET t == CHOOSE u \in tiles : \A v \in tiles : ~GridBefore(v, u)
         IN  SeqMultiply(compute_matrix_multiplication(out, mem, ctx, t),
                         mem, ctx, tiles \ {t})

RECURSIVE SeqBatchLoop(_, _, _, _)
SeqBatchLoop(out, mem, icbs, bbs) ==
    IF bbs >= batch_size THEN out
    ELSE SeqBatchLoop(
             SeqMultiply(out, mem,
                 MultiplicationContext(input_channels, output_channels,
                     bbs, min(batch_size - bbs, plan.batch_block_max),
                     icbs, input_channels_block_size_at(icbs),
                     plan.simd_width, packed_kernel_base),
                 Tiles2D(output_channels,
                         min(batch_size - bbs, plan.batch_block_max),
                         plan.output_channels_block_max, batch_subblock_max)),
             mem, icbs, bbs + plan.batch_block_max)

RECURSIVE SeqIcLoop(_, _, _)
SeqIcLoop(out, mem, icbs) ==
    IF icbs >= input_channels THEN out
    ELSE LET packed == SeqPackKernel(mem, icbs,
                           Tiles1D(output_channels,
                                   plan.output_channels_block_max))
         IN  SeqIcLoop(SeqBatchLoop(out, packed, icbs, 0), packed,
                       icbs + plan.input_channels_block_max)

\* The output of the sequential run on the call's input and kernel, from
\* the given contents of the output buffer.
SequentialOutputFrom(out) ==
    SeqIcLoop(out,
              SeqPackInput([x \in 0..((memory_size \div 4) - 1) |-> ScratchFill],
                           Tiles2D(batch_size, input_channels,
                                   plan.batch_block_max,
                                   plan.input_channels_block_max)),
              0)

SequentialOutput == SequentialOutputFrom(output_before)

\* The status of a call as a function of its arguments and of what
\* allocate_memory returned; the thread pool is no part of it.
SequentialStatus ==
    IF validate_fully_connected_arguments(
           batch_size, input_channels, output_channels) # nnp_status_success
    THEN validate_fully_connected_arguments(
             batch_size, input_channels, output_channels)
    ELSE IF allocations = 0 THEN nnp_status_out_of_memory
    ELSE nnp_status_success

\* C4: whatever order and overlap a pool of workers runs the tiles of each
\* stage in, the call returns the status and the output tensor of the run
\* that executes every stage sequentially in grid order.
C4_ParallelismInvariance ==
    Returned =>
        /\ status = SequentialStatus
        /\ status = nnp_status_success => output = SequentialOutput

\* A pool run over stages of several tiles each.
C4_Witness ==
    /\ Succeeded
    /\ threadpool > 1
    /\ RaggedMultiBlockShape
    /\ Cardinality(Tiles2D(output_channels,
                           min(batch_size, plan.batch_block_max),
                           plan.output_channels_block_max,
                           batch_subblock_max)) > 1

\* Rows and columns an invocation may write: the rows of its batch
\* subblock, the columns of its output-channel subblock.
SubblockRows(call) ==
    (batch_block_start + call.tile.j)
    ..(batch_block_start + call.tile.j + call.tile.sj - 1)

SubblockColumns(call) ==
    (call.tile.i + call.subblock_start)
    ..(call.tile.i + call.subblock_start + call.subblock_size - 1)

\* C5: no microkernel invocation writes outside the batch_size x
\* output_channels buffer, and the invocation for the subblock at column c
\* of width s writes only columns c..c+s-1 (all at most output_channels - 1)
\* of the rows of its batch subblock.
C5_ResidualWidthMasking ==
    /\ DOMAIN writes \subseteq 0..(batch_size * output_channels - 1)
    /\ \A e \in sgemm_calls :
           /\ \A x \in e.written :
                  /\ x \div output_channels \in SubblockRows(e.call)
                  /\ x % output_channels \in SubblockColumns(e.call)
           /\ \A col \in SubblockColumns(e.call) : col <= output_channels - 1

\* A kernel wider than the subblock it was selected for has run.
C5_Witness ==
    /\ pc = "multiply"
    /\ output_channels % 8 # 0
    /\ \E e \in sgemm_calls :
           /\ e.written # {}
           /\ sgemm_functions[e.call.row][e.call.col].nr > e.call.subblock_size
           /\ e.call.tile.i + e.call.subblock_start + e.call.subblock_size
                  = output_channels

InputChannelBlocks ==
    (input_channels + plan.input_channels_block_max - 1)
        \div plan.input_channels_block_max

\* C6 as claimed: on success every output element has been written exactly
\* once during the whole call.
C6_WrittenExactlyOnce ==
    Succeeded =>
        /\ DOMAIN writes = 0..(batch_size * output_channels - 1)
        /\ \A x \in DOMAIN writes : writes[x] = 1

\* C6 amended: on success every output element has been written exactly
\* once per input-channel block, ceil(input_channels /
\* input_channels_block_max) times in all and never outside the tensor; while
\* the call runs no element has been written more often than input-channel
\* blocks have been started.
C6_WrittenOncePerBlock ==
    /\ Succeeded =>
           /\ DOMAIN writes = 0..(batch_size * output_channels - 1)
           /\ \A x \in DOMAIN writes : writes[x] = InputChannelBlocks
    /\ pc \in {"batch_loop", "multiply"} =>
           \A x \in DOMAIN writes :
               writes[x] <= input_channels_block_start
                                \div plan.input_channels_block_max + 1

C6_Witness ==
    /\ Succeeded
    /\ InputChannelBlocks > 1
    /\ batch_size > plan.batch_block_max
    /\ output_channels > plan.output_channels_block_max

\* ------------------------------------------------------ packing round trip

\* Where the packing stage puts input[b][i]: the tile of the (batch_size,
\* input_channels) grid the element lies in, the subblock inside the tile
\* and the offsets inside the subblock, through the packed-index formula.
PackedInputIndexOf(b, i) ==
    LET obs == round_down(b, plan.batch_block_max)
        icbs == round_down(i, plan.input_channels_block_max)
        t == [i |-> obs, j |-> icbs,
              si |-> min(batch_size - obs, plan.batch_block_max),
              sj |-> min(input_channels - icbs, plan.input_channels_block_max)]
    IN  pack_input_packed_index(input_channels, batch_subblock_max, t,
            << round_down(b - obs, batch_subblock_max),
               i - icbs,
               (b - obs) % batch_subblock_max >>)

\* Where the kernel-packing stage of the input-channel block at icbs puts
\* kernel[o][i], as a float index of the scratch block.
PackedKernelIndexOf(o, i, icbs) ==
    LET obs == round_down(o, plan.output_channels_block_max)
        t == [i |-> obs, j |-> 0,
              si |-> min(output_channels - obs, plan.output_channels_block_max),
              sj |-> 0]
    IN  packed_kernel_base
        + pack_kernel_packed_index(input_channels_block_size_at(icbs),
              output_channels_subblock_max, t,
              << round_down(o - obs, output_channels_subblock_max),
                 i - icbs,
                 (o - obs) % output_channels_subblock_max >>)

InputElements == (0..(batch_size - 1)) \X (0..(input_channels - 1))

KernelElementsOfBlock ==
    (0..(output_channels - 1))
    \X (input_channels_block_start
        ..(input_channels_block_start
           + input_channels_block_size_at(input_channels_block_start) - 1))

\* The input-packing stage is complete at every test of the loop over
\* input-channel blocks; the kernel-packing stage of the current block is
\* complete at every test of the loop over batch blocks.
InputPacked == pc = "ic_loop"
KernelPacked == pc = "batch_loop"

\* C7: once the input-packing stage has run over its whole tile grid, and
\* once the kernel-packing stage of an input-channel block has run over the
\* whole output-channel grid, distinct source elements lie at distinct
\* packed indices inside the scratch block (as many packed indices as
\* elements) and each packed index holds its source element.
C7_PackingRoundTrip ==
    /\ InputPacked =>
           /\ \A e \in InputElements :
                  /\ PackedInputIndexOf(e[1], e[2]) \in DOMAIN memory
                  /\ memory[PackedInputIndexOf(e[1], e[2])]
                         = input[e[1] * input_channels + e[2]]
           /\ Cardinality({PackedInputIndexOf(e[1], e[2]) : e \in InputElements})
                  = Cardinality(InputElements)
    /\ KernelPacked =>
           /\ \A e \in KernelElementsOfBlock :
                  /\ PackedKernelIndexOf(e[1], e[2], input_channels_block_start)
                         \in DOMAIN memory
                  /\ memory[PackedKernelIndexOf(e[1], e[2],
                                                input_channels_block_start)]
                         = kernel[e[1] * input_channels + e[2]]
           /\ Cardinality({PackedKernelIndexOf(e[1], e[2],
                                               input_channels_block_start) :
                              e \in KernelElementsOfBlock})
                  = Cardinality(KernelElementsOfBlock)

\* Both buffers packed, with ragged last blocks and subblocks, in the second
\* input-channel block.
C7_Witness ==
    /\ pc = "batch_loop"
    /\ input_channels_block_start > 0
    /\ batch_size % batch_subblock_max # 0
    /\ output_channels > output_channels_subblock_max
    /\ output_channels % output_channels_subblock_max # 0
    /\ input_channels % plan.input_channels_block_max # 0

\* C8: a call made while the library is not initialized (never initialized,
\* or deinitialized since) fails with nnp_status_uninitialized and never
\* derives block sizes, allocates, starts a tile or writes the output.
C8_UninitializedRejected ==
    (pc # "idle" /\ ~initialized) =>
        /\ pc \in {"validate", "cleanup", "done"}
        /\ plan = NoPlan
        /\ memory_size = -1
        /\ allocations = 0
        /\ NothingComputed
        /\ pc \in {"cleanup", "done"} => status = nnp_status_uninitialized

\* A call with a valid shape after nnp_deinitialize.
C8_Witness ==
    /\ Returned
    /\ ~initialized /\ deinitialized
    /\ ~AnyZero
    /\ status = nnp_status_uninitialized

\* C9: a call that returns has run the cleanup exactly once, with no tile
\* pending or running, and has released exactly the scratch blocks it
\* acquired (one or none: a NULL block is not released); the cleanup never
\* runs before the return path, nothing is released twice, and tiles only
\* run while the block is acquired and not released.
C9_SingleCleanup ==
    /\ Returned =>
           /\ cleanups = 1
           /\ releases = allocations
           /\ pending = {} /\ running = {}
           /\ memory_block = FALSE => releases = 0
    /\ pc \notin {"idle", "done"} => cleanups = 0 /\ releases = 0
    /\ allocations <= 1
    /\ releases <= allocations
    /\ (pending # {} \/ running # {}) => allocations = 1 /\ releases = 0
    /\ allocations = 1 <=> memory_block

C9_Witness ==
    /\ Succeeded
    /\ cleanups = 1 /\ allocations = 1 /\ releases = 1
    /\ tiles_started > 4

\* C10 as claimed: whatever the (positive) cache capacities of the profile,
\* a call that has been entered and has not yet returned its status always
\* has a next step to take, so that it runs on until it returns.
C10_CallReturns == pc \notin {"idle", "done"} => ENABLED CallStep

\* The tiles of the three kinds of stage.
PackInputStage ==
    { [stage |-> "pack_input", input_channels_block_start |-> 0,
       batch_block_start |-> 0, tile |-> t] :
      t \in Tiles2D(batch_size, input_channels, plan.batch_block_max,
                    plan.input_channels_block_max) }

PackKernelStage(k) ==
    { [stage |-> "pack_kernel", input_channels_block_start |-> k,
       batch_block_start |-> 0, tile |-> t] :
      t \in Tiles1D(output_channels, plan.output_channels_block_max) }

MultiplyStage(k, b) ==
    { [stage |-> "multiply", input_channels_block_start |-> k,
       batch_block_start |-> b, tile |-> t] :
      t \in Tiles2D(output_channels, min(batch_size - b, plan.batch_block_max),
                    plan.output_channels_block_max, batch_subblock_max) }

\* Every multiplication stage of input-channel block k.
MultiplyStagesOf(k) ==
    UNION { MultiplyStage(k, b) :
            b \in TileStarts(batch_size, plan.batch_block_max) }

\* C11: the stages are barriers, in the order pack input, then for each
\* input-channel block k: pack kernel(k), multiply(k, batch block 0),
\* multiply(k, batch block 1), ...  A tile that has started belongs to the
\* stage the driver is in; a kernel-packing or multiplication tile has only
\* started once every input-packing tile is complete; a multiplication tile
\* of block k only once every kernel-packing tile of block k and every
\* multiplication tile of the previous batch block is complete; a
\* kernel-packing tile of block k + 1 only once every multiplication tile of
\* block k is complete.
C11_StageBarriers ==
    /\ finished \subseteq started
    /\ \A e \in started :
           /\ e.stage # "pack_input" => PackInputStage \subseteq finished
           /\ e.stage = "pack_input" => e \in PackInputStage
           /\ e.stage = "pack_kernel" =>
                  /\ e \in PackKernelStage(e.input_channels_block_start)
                  /\ e.input_channels_block_start > 0 =>
                         MultiplyStagesOf(e.input_channels_block_start
                                          - plan.input_channels_block_max)
                             \subseteq finished
           /\ e.stage = "multiply" =>
                  /\ e \in MultiplyStage(e.input_channels_block_start,
                                         e.batch_block_start)
                  /\ PackKernelStage(e.input_channels_block_start)
                         \subseteq finished
                  /\ e.batch_block_start > 0 =>
                         MultiplyStage(e.input_channels_block_start,
                                       e.batch_block_start
                                       - plan.batch_block_max)
                             \subseteq finished
           /\ e \notin finished => e.tile \in running /\ e.stage = pc

\* A pool runs two tiles of the second batch block of the second
\* input-channel block at once.
C11_Witness ==
    /\ pc = "multiply"
    /\ threadpool = MaxWorkers
    /\ input_channels_block_start > 0
    /\ batch_block_start > 0
    /\ Cardinality(running) = 2
    /\ Cardinality(started) > Cardinality(finished) + 1

\* Packed indices a tile of a packing stage writes, relative to its packed
\* buffer.
PackInputWrites(t) ==
    { s.at : s \in pack_input_stores(input_channels, batch_subblock_max, t) }

PackKernelWrites(t) ==
    { s.at : s \in pack_kernel_stores(input_channels,
                       output_channels_subblock_max,
                       input_channels_block_start,
                       input_channels_block_size_at(input_channels_block_start),
                       t) }

\* The contiguous range of a tile: outer_block_stride *
\* input_channels_block_size elements.
PackInputRange(t) ==
    LET outer_block_stride == round_up(t.si, batch_subblock_max)
        first == t.i * input_channels + t.j * outer_block_stride
    IN  first..(first + outer_block_stride * t.sj - 1)

PackKernelRange(t) ==
    LET icb_size == input_channels_block_size_at(input_channels_block_start)
        first == t.i * icb_size
    IN  first..(first + round_up(t.si, output_channels_subblock_max) * icb_size - 1)

\* Tiles of the running stage that have started.
StartedInStage ==
    { e.tile : e \in { f \in started :
          /\ f.stage = pc
          /\ f.input_channels_block_start = input_channels_block_start } }

\* C12: within one packing stage two distinct tiles write disjoint sets of
\* packed indices.  A pack_input tile writes only inside the contiguous
\* range of outer_block_stride * input_channels_block_size elements that
\* starts at outer_block_start * input_channels + input_channels_block_start
\* * outer_block_stride, and a pack_kernel tile only inside the range of its
\* output-channel block; the ranges of distinct tiles do not overlap, ragged
\* blocks and subblocks included.
C12_PackingTilesDisjoint ==
    /\ pc = "pack_input" =>
           \A t \in StartedInStage \cup pending :
               /\ PackInputWrites(t) \subseteq PackInputRange(t)
               /\ \A u \in StartedInStage \cup pending :
                      u # t => PackInputRange(t) \cap PackInputRange(u) = {}
    /\ pc = "pack_kernel" =>
           \A t \in StartedInStage \cup pending :
               /\ PackKernelWrites(t) \subseteq PackKernelRange(t)
               /\ \A u \in StartedInStage \cup pending :
                      u # t => PackKernelRange(t) \cap PackKernelRange(u) = {}

\* Two kernel-packing tiles, one of them ragged, run at once after an input
\* packing of several ragged tiles.
C12_Witness ==
    /\ pc = "pack_kernel"
    /\ Cardinality(running) = 2
    /\ \E t \in running : t.si % output_channels_subblock_max # 0
    /\ batch_size > plan.batch_block_max
    /\ batch_size % batch_subblock_max # 0
    /\ input_channels % plan.input_channels_block_max # 0
    /\ \A t \in running : PackKernelWrites(t) # {}

\* Output elements of the batch block of the running multiplication stage.
BatchBlockElements ==
    { b * output_channels + o :
      b \in batch_block_start..
                (batch_block_start + batch_block_size_at(batch_block_start) - 1),
      o \in 0..(output_channels - 1) }

\* Output elements written by the finished tile t of the running stage.
TileWritten(t) ==
    UNION { e.written : e \in { f \in sgemm_calls : f.call.tile = t } }

StageTilesDone == pending = {} /\ running = {}

\* C13: within one multiplication stage distinct tiles write disjoint sets
\* of output elements, no tile writes a row of another batch block, and when
\* the stage is complete the union of the sets is exactly rows
\* batch_block_start .. batch_block_start + batch_block_size - 1 by columns
\* 0 .. output_channels - 1.
C13_MultiplyTilesPartition ==
    pc = "multiply" =>
        /\ \A e \in sgemm_calls : e.written \subseteq BatchBlockElements
        /\ \A e, f \in sgemm_calls :
               e.call.tile # f.call.tile => e.written \cap f.written = {}
        /\ StageTilesDone =>
               /\ { e.call.tile : e \in sgemm_calls }
                      = { e.tile : e \in MultiplyStage(input_channels_block_start,
                                                        batch_block_start) }
               /\ UNION { e.written : e \in sgemm_calls } = BatchBlockElements

\* The second batch block, ragged in both directions, has been multiplied
\* by several tiles run by the pool.
C13_Witness ==
    /\ pc = "multiply"
    /\ StageTilesDone
    /\ threadpool = MaxWorkers
    /\ batch_block_start > 0
    /\ batch_size % batch_subblock_max # 0
    /\ output_channels % output_channels_subblock_max # 0
    /\ Cardinality({ e.call.tile : e \in sgemm_calls }) >= 2
    /\ \A e \in sgemm_calls : TileWritten(e.call.tile) # {}

\* Elements of the two packed buffers.
PackedInputElements ==
    round_up(batch_size, batch_subblock_max) * input_channels

PackedKernelElements ==
    round_up(output_channels, output_channels_subblock_max)
    * plan.input_channels_block_max

\* C14: every packed index pack_input_matrix writes and every packed-input
\* offset a microkernel reads is below round_up(batch_size, 4) *
\* input_channels; every packed index pack_kernel_matrix writes and every
\* packed-kernel offset a microkernel reads is below round_up(output_channels,
\* 24) * input_channels_block_max; the packed kernel starts at the byte offset
\* round_up(packed input bytes, 64), at or after the end of the packed input,
\* and ends within memory_size, the size of the block.
C14_ScratchAccessesInBounds ==
    /\ pc = "pack_input" =>
           \A t \in StartedInStage \cup pending :
               PackInputWrites(t) \subseteq 0..(PackedInputElements - 1)
    /\ pc = "pack_kernel" =>
           \A t \in StartedInStage \cup pending :
               PackKernelWrites(t) \subseteq 0..(PackedKernelElements - 1)
    /\ pc = "multiply" =>
           \A e \in sgemm_calls :
               /\ SgemmInputReads(e.call)
                      \subseteq 0..(PackedInputElements - 1)
               /\ SgemmKernelReads(e.call, packed_kernel_base)
                      \subseteq 0..(PackedKernelElements - 1)
    /\ pc \in Stages =>
           /\ plan.packed_kernel_offset = round_up(PackedInputElements * 4, 64)
           /\ PackedInputElements * 4 <= plan.packed_kernel_offset
           /\ plan.packed_kernel_offset + PackedKernelElements * 4 <= memory_size
           /\ memory_block
           /\ DOMAIN memory = 0..((memory_size \div 4) - 1)
    /\ faults \cap {"scratch_write", "matrix_read"} = {}

\* A microkernel reads the last element of either packed buffer.
C14_Witness ==
    /\ pc = "multiply"
    /\ \E e \in sgemm_calls :
           /\ PackedInputElements - 1 \in SgemmInputReads(e.call)
           /\ PackedKernelElements - 1
                  \in SgemmKernelReads(e.call, packed_kernel_base)
    /\ plan.packed_kernel_offset > PackedInputElements * 4

\* Sizes of the subblocks a block of the given size is cut into, with the
\* offset of each inside the block.
SubblocksOf(block_size, subblock_max) ==
    { [start |-> x, size |-> min(block_size - x, subblock_max)] :
      x \in TileStarts(block_size, subblock_max) }

\* A block at `start` of an axis of length `range`, cut into subblocks: it
\* is a whole number of subblocks unless it ends the axis, and a short
\* subblock ends the axis.
WholeSubblocks(start, block_size, range, subblock_max) ==
    /\ start + block_size < range => block_size % subblock_max = 0
    /\ \A sb \in SubblocksOf(block_size, subblock_max) :
           sb.size < subblock_max => start + sb.start + sb.size = range

\* C15: the block maxima are multiples of the subblock maxima
\* (batch_block_max of 4, output_channels_block_max of 24), so every batch
\* block and output-channel block but the last of its axis is a whole number
\* of subblocks, and a subblock shorter than the maximum occurs only at the
\* very end of the axis.
C15_BlocksAreWholeSubblocks ==
    /\ plan # NoPlan =>
           /\ plan.batch_block_max % batch_subblock_max = 0
           /\ plan.output_channels_block_max % output_channels_subblock_max = 0
    /\ pc = "pack_input" =>
           \A t \in pending \cup running :
               WholeSubblocks(t.i, t.si, batch_size, batch_subblock_max)
    /\ pc = "pack_kernel" =>
           \A t \in pending \cup running :
               WholeSubblocks(t.i, t.si, output_channels,
                              output_channels_subblock_max)
    /\ pc = "multiply" =>
           /\ WholeSubblocks(batch_block_start,
                             batch_block_size_at(batch_block_start),
                             batch_size, batch_subblock_max)
           /\ \A t \in pending \cup running :
                  /\ WholeSubblocks(t.i, t.si, output_channels,
                                    output_channels_subblock_max)
                  /\ t.sj < batch_subblock_max =>
                         batch_block_start + t.j + t.sj = batch_size
           /\ \A e \in sgemm_calls :
                  e.call.subblock_size < output_channels_subblock_max =>
                      e.call.tile.i + e.call.subblock_start
                      + e.call.subblock_size = output_channels

\* The cache capacities are not whole numbers of subblocks, the batch and
\* the output channels span several blocks, and a microkernel has run on a
\* short subblock of either axis.
C15_Witness ==
    /\ pc = "multiply"
    /\ (cache_elements(nnp_hwinfo.l3) \div plan.input_channels_block_max)
           % batch_subblock_max # 0
    /\ (cache_elements(nnp_hwinfo.l2) \div plan.input_channels_block_max)
           % output_channels_subblock_max # 0
    /\ batch_size > plan.batch_block_max
    /\ output_channels > plan.output_channels_block_max
    /\ \E e \in sgemm_calls :
           /\ e.call.subblock_size < output_channels_subblock_max
           /\ e.call.tile.sj < batch_subblock_max

\* The planner (lines 259-276) has been entered and left, one way or the
\* other.
PlannerRan ==
    \/ pc = "no_return"
    \/ pc \notin {"idle", "validate", "plan"} /\ memory_size # -1

PositiveCaches ==
    nnp_hwinfo.l1 > 0 /\ nnp_hwinfo.l2 > 0 /\ nnp_hwinfo.l3 > 0

\* C16 as claimed: for every hardware profile whose L1, L2 and L3 capacities
\* are positive byte counts the planner has no failure mode and yields
\* positive integers: input_channels_block_max = L1 elements / 28 >= 1,
\* batch_block_max >= 1 and output_channels_block_max >= 1.
C16_BlockMaximaPositive ==
    (PlannerRan /\ PositiveCaches) =>
        /\ plan # NoPlan
        /\ plan.input_channels_block_max
               = cache_elements(nnp_hwinfo.l1)
                 \div (batch_subblock_max + output_channels_subblock_max)
        /\ plan.input_channels_block_max >= 1
        /\ plan.batch_block_max >= 1
        /\ plan.output_channels_block_max >= 1

\* C17: every microkernel selection indexes inside the 4 x 3 table: the
\* batch subblock size of every tile is in 1..4, so the row (size - 1) is in
\* 0..3; the output-channel subblock size of every invocation is in 1..24,
\* so the column (size - 1) / simd_width is in 0..2 for the SIMD width of
\* the profile; the cell selected is a kernel of exactly the tile's height
\* and at least the subblock's width, and no cell outside the table is ever
\* called.
C17_DispatchInsideTable ==
    /\ pc = "multiply" =>
           /\ \A t \in pending \cup running :
                  t.sj \in 1..batch_subblock_max
           /\ \A e \in sgemm_calls :
                  /\ e.call.tile.sj \in 1..batch_subblock_max
                  /\ e.call.row = e.call.tile.sj - 1
                  /\ e.call.row \in DOMAIN sgemm_functions
                  /\ e.call.subblock_size \in 1..output_channels_subblock_max
                  /\ e.call.col
                         = (e.call.subblock_size - 1) \div plan.simd_width
                  /\ e.call.col \in DOMAIN sgemm_functions[e.call.row]
                  /\ sgemm_functions[e.call.row][e.call.col].mr
                         = e.call.tile.sj
                  /\ sgemm_functions[e.call.row][e.call.col].nr
                         >= e.call.subblock_size
    /\ "dispatch" \notin faults

\* One stage has called the largest kernel (4 x 24) and the smallest (1 x 8).
C17_Witness ==
    /\ pc = "multiply"
    /\ \E e \in sgemm_calls : e.call.row = 3 /\ e.call.col = 2
    /\ \E e \in sgemm_calls : e.call.row = 0 /\ e.call.col = 0

\* What line 129 and line 135 select for a subblock of s output channels.
SelectionFor(s) ==
    [row |-> batch_subblock_max - 1,
     col |-> sgemm_column(s, plan.simd_width),
     mask |-> column_mask_offset(s, plan.simd_width)]

\* Lanes of column_mask the kernel reads through the mask pointer.
MaskLanes(offset) == offset..(offset + plan.simd_width - 1)

\* The mask pointer, the lanes read and the lanes enabled are right for a
\* subblock of s output channels.
MaskFits(s, sel) ==
    /\ sel.mask = (plan.simd_width - (s % plan.simd_width)) % plan.simd_width
    /\ MaskLanes(sel.mask) \subseteq DOMAIN column_mask
    /\ Cardinality({ x \in MaskLanes(sel.mask) : column_mask[x] = 0 })
           = plan.simd_width * ((s - 1) \div plan.simd_width + 1) - s
    /\ sgemm_functions[sel.row][sel.col].nr
           = plan.simd_width * ((s - 1) \div plan.simd_width + 1)
    /\ SgemmLanes(sel) = 0..(s - 1)

\* C18: for every output-channel subblock size s in 1..24 the mask pointer
\* is column_mask + ((-s) mod simd_width); the simd_width lanes read from
\* there lie inside the 16-entry column_mask, and the number of disabled
\* lanes is the width of the selected kernel, simd_width * ((s - 1) /
\* simd_width + 1), minus s, so that the enabled columns are exactly the
\* first s.
C18_MaskPointer ==
    pc = "multiply" =>
        /\ \A s \in 1..output_channels_subblock_max :
               MaskFits(s, SelectionFor(s))
        /\ \A e \in sgemm_calls : MaskFits(e.call.subblock_size, e.call)

\* A microkernel has run on a subblock of 13 columns: kernel 4 x 16 with
\* the last three lanes disabled.
C18_Witness ==
    /\ pc = "multiply"
    /\ \E e \in sgemm_calls :
           /\ e.call.subblock_size = 13
           /\ e.call.col = 1
           /\ e.call.mask = 3
           /\ Cardinality(e.written) = 13 * e.call.tile.sj

\* Other contents the caller's output buffer could have held before the
\* call: constant ones and one that differs from element to element.
OtherOutputs ==
    { [x \in DOMAIN output_before |-> v] : v \in {-3, 0} }
    \cup { [x \in DOMAIN output_before |-> (x % 5) + 10] }

\* C19: the output is a pure output.  The call that has returned success
\* and the call with the same shape, input and kernel made on any other
\* contents of the output buffer end with the same output, for every number
\* of input-channel blocks; the microkernel is told to overwrite exactly in
\* the first input-channel block, and by the time a later block accumulates
\* every output element has been written.
C19_OutputIsPureOutput ==
    /\ Succeeded =>
           \A other \in OtherOutputs : output = SequentialOutputFrom(other)
    /\ pc = "multiply" =>
           /\ \A e \in sgemm_calls :
                  e.call.update = 0 <=> input_channels_block_start = 0
           /\ input_channels_block_start > 0 =>
                  \A x \in DOMAIN output : x \in DOMAIN writes /\ writes[x] >= 1

\* A successful call over two input-channel blocks, on a buffer that
\* differs everywhere from the other contents and from the result.
C19_Witness ==
    /\ Succeeded
    /\ input_channels > plan.input_channels_block_max
    /\ batch_size > 1 /\ output_channels > 1
    /\ \A other \in OtherOutputs :
           \A x \in DOMAIN output : other[x] # output_before[x]
    /\ \E x \in DOMAIN output : output[x] # output_before[x]

\* The floats of the scratch block outside the packed input: the padding
\* and the packed kernel.
BeyondPackedInput == { x \in DOMAIN memory : x >= PackedInputElements }

\* C20: each stage writes only its own target.  While a packing stage runs
\* the output is left as it is (and input packing leaves the packed kernel
\* as it is); while a multiplication stage runs the scratch block is left
\* as it is; no store lands outside the buffer it is aimed at; and from the
\* entry of a call to its return, successful or not, the caller's input and
\* kernel are left as they are.
C20_StagesWriteOwnTarget ==
    [][ /\ pc \notin {"idle", "done"} =>
               input' = input /\ kernel' = kernel
        /\ pc \in {"pack_input", "pack_kernel"} => output' = output
        /\ pc = "pack_input" =>
               \A x \in BeyondPackedInput : memory'[x] = memory[x]
        /\ pc = "multiply" => memory' = memory
        /\ pc \in Stages =>
               faults' \cap {"scratch_write", "output_write"} = {}
      ]_vars

\* A successful call whose tiles of all three kinds have written: the
\* scratch was filled before it was released and the output has changed.
C20_Witness ==
    /\ Succeeded
    /\ { e.stage : e \in finished } = Stages
    /\ output # output_before
    /\ input # << >> /\ kernel # << >>

====
